---- MODULE Spec2Model ----
(***************************************************************************)
(* Model of scripts/validate_sql_schema.py: the schema-consistency checker *)
(* that extracts table columns and semantic-view references from SQL text  *)
(* with regular expressions and classifies every alias.column reference.   *)
(*                                                                         *)
(* Text is a sequence of one-character strings, so the regular expressions *)
(* and the str methods are computed character by character.                *)
(***************************************************************************)
EXTENDS Integers, Sequences, FiniteSets, TLC

\* ------------------------------------------------------------------------
\* Bounds of the model
\* ------------------------------------------------------------------------

\* Largest number of SQL statements in the input file.
MaxStmts == 3

\* ------------------------------------------------------------------------
\* Characters and str methods
\* ------------------------------------------------------------------------

UpperLetters ==
    <<"A","B","C","D","E","F","G","H","I","J","K","L","M",
      "N","O","P","Q","R","S","T","U","V","W","X","Y","Z">>

LowerLetters ==
    <<"a","b","c","d","e","f","g","h","i","j","k","l","m",
      "n","o","p","q","r","s","t","u","v","w","x","y","z">>

DigitChars ==
    {"0","1","2","3","4","5","6","7","8","9"}

\* str.strip() with no argument removes these (the ones the inputs use).
WhitespaceChars ==
    {" ", "\n", "\t", "\r"}

PunctuationChars ==
    {"(", ")", ";", ",", ".", "-", "_", "*", "=", "'"}

Letters ==
    {UpperLetters[k] : k \in 1..26} \cup {LowerLetters[k] : k \in 1..26}

Alphabet ==
    Letters \cup DigitChars \cup WhitespaceChars \cup PunctuationChars

\* str.lower() on one character
lower_char ==
    [c \in Alphabet |->
        IF \E k \in 1..26 : UpperLetters[k] = c
        THEN LowerLetters[CHOOSE k \in 1..26 : UpperLetters[k] = c]
        ELSE c]

\* str.upper() on one character
upper_char ==
    [c \in Alphabet |->
        IF \E k \in 1..26 : LowerLetters[k] = c
        THEN UpperLetters[CHOOSE k \in 1..26 : LowerLetters[k] = c]
        ELSE c]

\* str.lower()
str_lower(s) ==
    [k \in 1..Len(s) |-> lower_char[s[k]]]

\* str.upper()
str_upper(s) ==
    [k \in 1..Len(s) |-> upper_char[s[k]]]

\* the regular-expression class \w
IsWordChar ==
    [c \in Alphabet |-> c \in Letters \cup DigitChars \cup {"_"}]

\* s[i:].startswith(prefix), positions counted from 1
startswith_at(s, i, prefix) ==
    /\ i + Len(prefix) - 1 <= Len(s)
    /\ \A k \in 1..Len(prefix) : s[i + k - 1] = prefix[k]

\* a literal of a pattern compiled with re.IGNORECASE, tried at position i
match_literal_ignorecase(s, i, literal) ==
    /\ i + Len(literal) - 1 <= Len(s)
    /\ \A k \in 1..Len(literal) : lower_char[s[i + k - 1]] = lower_char[literal[k]]

\* the leftmost position in lo..hi where hit is TRUE, 0 when there is none:
\* the left-to-right scan of the re engine and of the str methods
first_position(lo, hi, hit) ==
    IF \E j \in lo..hi : hit[j]
    THEN CHOOSE j \in lo..hi : hit[j] /\ \A k \in lo..(j - 1) : ~hit[k]
    ELSE 0

\* \w+ tried at position i: the position after the longest run of word
\* characters that starts at i (i itself when there is none)
word_end(s, i) ==
    first_position(i, Len(s) + 1,
        [j \in i..(Len(s) + 1) |-> j = Len(s) + 1 \/ ~IsWordChar[s[j]]])

\* str.strip()
str_strip(s) ==
    LET a == first_position(1, Len(s), [j \in 1..Len(s) |-> s[j] \notin WhitespaceChars])
        b == IF a = 0 THEN 0
             ELSE CHOOSE j \in a..Len(s) :
                    /\ s[j] \notin WhitespaceChars
                    /\ \A k \in (j + 1)..Len(s) : s[k] \in WhitespaceChars
    IN  IF a = 0 THEN <<>> ELSE SubSeq(s, a, b)

\* str.split('\n') of the text from position start on
RECURSIVE split_lines_from(_, _)
split_lines_from(s, start) ==
    LET nl == first_position(start, Len(s), [j \in start..Len(s) |-> s[j] = "\n"])
    IN  IF nl = 0 THEN <<SubSeq(s, start, Len(s))>>
        ELSE <<SubSeq(s, start, nl - 1)>> \o split_lines_from(s, nl + 1)

str_split_lines(s) ==
    split_lines_from(s, 1)

\* x in list
InList(x, list) ==
    \E k \in 1..Len(list) : list[k] = x

\* ------------------------------------------------------------------------
\* Literals of the patterns and the static configuration
\* ------------------------------------------------------------------------

\* table_pattern, literal prefix 'CREATE OR REPLACE TABLE '
table_pattern_head ==
    <<"C","R","E","A","T","E"," ","O","R"," ","R","E","P","L","A","C","E"," ","T","A","B","L",
      "E"," ">>

\* semantic_pattern, literal prefix 'CREATE OR REPLACE SEMANTIC VIEW'
semantic_pattern_head ==
    <<"C","R","E","A","T","E"," ","O","R"," ","R","E","P","L","A","C","E"," ","S","E","M","A",
      "N","T","I","C"," ","V","I","E","W">>

\* semantic_pattern, lookahead alternative 'CREATE'
lookahead_create ==
    <<"C","R","E","A","T","E">>

\* line.startswith('FOREIGN KEY')
foreign_key_prefix ==
    <<"F","O","R","E","I","G","N"," ","K","E","Y">>

\* column.upper() in ['COUNT', 'SUM', 'AVG', 'MAX', 'MIN']
aggregate_keywords ==
    {
      <<"C","O","U","N","T">>,
      <<"S","U","M">>,
      <<"A","V","G">>,
      <<"M","A","X">>,
      <<"M","I","N">>
    }

\* column.lower() in ['total_segments', ..., 'average_engagement_rate']
computed_metrics ==
    {
      <<"t","o","t","a","l","_","s","e","g","m","e","n","t","s">>,
      <<"t","o","t","a","l","_","a","u","d","i","e","n","c","e","s">>,
      <<"l","o","o","k","a","l","i","k","e","_","s","e","g","m","e","n","t","s">>,
      <<"o","p","t","_","i","n","_","a","u","d","i","e","n","c","e","s">>,
      <<"t","o","t","a","l","_","i","m","p","r","e","s","s","i","o","n","s">>,
      <<"t","o","t","a","l","_","c","l","i","c","k","s">>,
      <<"t","o","t","a","l","_","c","o","n","v","e","r","s","i","o","n","s">>,
      <<"t","o","t","a","l","_","c","o","s","t">>,
      <<"a","v","e","r","a","g","e","_","r","o","i">>,
      <<"a","v","e","r","a","g","e","_","c","t","r">>,
      <<"a","v","e","r","a","g","e","_","s","e","n","t","i","m","e","n","t">>,
      <<"t","o","t","a","l","_","a","t","t","r","i","b","u","t","i","o","n","_","e","v","e","n",
        "t","s">>,
      <<"a","v","e","r","a","g","e","_","a","t","t","r","i","b","u","t","i","o","n">>,
      <<"t","o","t","a","l","_","r","e","a","c","h">>,
      <<"a","v","e","r","a","g","e","_","f","r","e","q","u","e","n","c","y">>,
      <<"a","v","e","r","a","g","e","_","e","n","g","a","g","e","m","e","n","t","_","r","a","t",
        "e">>
    }

\* r[1] not in ['COUNT', 'SUM', 'AVG']
summary_excluded ==
    {
      <<"C","O","U","N","T">>,
      <<"S","U","M">>,
      <<"A","V","G">>
    }

\* alias_mapping = {'demographics': 'audience_demographics', ...}: alias -> table name pairs
alias_mapping_items ==
    {
      <<
        <<"d","e","m","o","g","r","a","p","h","i","c","s">>,
        <<"a","u","d","i","e","n","c","e","_","d","e","m","o","g","r","a","p","h","i","c","s">>
      >>,
      <<
        <<"s","e","g","m","e","n","t","s">>,
        <<"a","u","d","i","e","n","c","e","_","s","e","g","m","e","n","t","s">>
      >>,
      <<
        <<"c","r","e","a","t","i","v","e","s">>,
        <<"c","r","e","a","t","i","v","e","_","m","e","t","a","d","a","t","a">>
      >>,
      <<
        <<"p","e","r","f","o","r","m","a","n","c","e">>,
        <<"c","a","m","p","a","i","g","n","_","p","e","r","f","o","r","m","a","n","c","e">>
      >>,
      <<
        <<"a","t","t","r","i","b","u","t","i","o","n">>,
        <<"a","t","t","r","i","b","u","t","i","o","n","_","e","v","e","n","t","s">>
      >>,
      <<
        <<"e","n","g","a","g","e","m","e","n","t">>,
        <<"m","e","d","i","a","_","c","h","a","n","n","e","l","_","e","n","g","a","g","e","m",
          "e","n","t">>
      >>,
      <<
        <<"c","o","n","s","e","n","t">>,
        <<"c","o","n","s","e","n","t","_","p","r","i","v","a","c","y">>
      >>
    }

\* ------------------------------------------------------------------------
\* SQL statements the input files are built from
\* ------------------------------------------------------------------------

\* 'CREATE OR REPLACE TABLE audience_demographics (audience_id VARCHAR, Age_Group VARCHAR);\n'
stmt_table_one_line ==
    <<"C","R","E","A","T","E"," ","O","R"," ","R","E","P","L","A","C","E"," ","T","A","B","L",
      "E"," ","a","u","d","i","e","n","c","e","_","d","e","m","o","g","r","a","p","h","i","c",
      "s"," ","(","a","u","d","i","e","n","c","e","_","i","d"," ","V","A","R","C","H","A","R",
      ","," ","A","g","e","_","G","r","o","u","p"," ","V","A","R","C","H","A","R",")",";","\n">>

\* 'create or replace table Audience_Demographics (\n  audience_id VARCHAR,\n  Age_Group VARCHAR,\n  AGE_GROUP VARCHAR,\n  -- key\n  PRIMARY KEY (audience_id),\n  foreign key (audience_id) references ids(id),\n  FOREIGN KEY (audience_id) REFERENCES crm.ids(id)\n);\n'
stmt_table_multi_line ==
    <<"c","r","e","a","t","e"," ","o","r"," ","r","e","p","l","a","c","e"," ","t","a","b","l",
      "e"," ","A","u","d","i","e","n","c","e","_","D","e","m","o","g","r","a","p","h","i","c",
      "s"," ","(","\n"," "," ","a","u","d","i","e","n","c","e","_","i","d"," ","V","A","R","C",
      "H","A","R",",","\n"," "," ","A","g","e","_","G","r","o","u","p"," ","V","A","R","C","H",
      "A","R",",","\n"," "," ","A","G","E","_","G","R","O","U","P"," ","V","A","R","C","H","A",
      "R",",","\n"," "," ","-","-"," ","k","e","y","\n"," "," ","P","R","I","M","A","R","Y"," ",
      "K","E","Y"," ","(","a","u","d","i","e","n","c","e","_","i","d",")",",","\n"," "," ","f",
      "o","r","e","i","g","n"," ","k","e","y"," ","(","a","u","d","i","e","n","c","e","_","i",
      "d",")"," ","r","e","f","e","r","e","n","c","e","s"," ","i","d","s","(","i","d",")",",",
      "\n"," "," ","F","O","R","E","I","G","N"," ","K","E","Y"," ","(","a","u","d","i","e","n",
      "c","e","_","i","d",")"," ","R","E","F","E","R","E","N","C","E","S"," ","c","r","m",".",
      "i","d","s","(","i","d",")","\n",")",";","\n">>

\* 'CREATE TABLE creative_metadata (\n  creative_id VARCHAR,\n  created_date DATE\n);\n'
stmt_table_plain ==
    <<"C","R","E","A","T","E"," ","T","A","B","L","E"," ","c","r","e","a","t","i","v","e","_",
      "m","e","t","a","d","a","t","a"," ","(","\n"," "," ","c","r","e","a","t","i","v","e","_",
      "i","d"," ","V","A","R","C","H","A","R",",","\n"," "," ","c","r","e","a","t","e","d","_",
      "d","a","t","e"," ","D","A","T","E","\n",")",";","\n">>

\* 'CREATE OR REPLACE TABLE consent_privacy (\n  -- tbd\n);\n'
stmt_table_empty ==
    <<"C","R","E","A","T","E"," ","O","R"," ","R","E","P","L","A","C","E"," ","T","A","B","L",
      "E"," ","c","o","n","s","e","n","t","_","p","r","i","v","a","c","y"," ","(","\n"," "," ",
      "-","-"," ","t","b","d","\n",")",";","\n">>

\* 'CREATE OR REPLACE TABLE demographics (\n  age_group VARCHAR\n);\n'
stmt_table_alias_named ==
    <<"C","R","E","A","T","E"," ","O","R"," ","R","E","P","L","A","C","E"," ","T","A","B","L",
      "E"," ","d","e","m","o","g","r","a","p","h","i","c","s"," ","(","\n"," "," ","a","g","e",
      "_","g","r","o","u","p"," ","V","A","R","C","H","A","R","\n",")",";","\n">>

\* 'CREATE OR REPLACE SEMANTIC VIEW v AS\n  demographics.audience_id,\n  demographics.age_group;\n'
stmt_view_demo ==
    <<"C","R","E","A","T","E"," ","O","R"," ","R","E","P","L","A","C","E"," ","S","E","M","A",
      "N","T","I","C"," ","V","I","E","W"," ","v"," ","A","S","\n"," "," ","d","e","m","o","g",
      "r","a","p","h","i","c","s",".","a","u","d","i","e","n","c","e","_","i","d",",","\n"," ",
      " ","d","e","m","o","g","r","a","p","h","i","c","s",".","a","g","e","_","g","r","o","u",
      "p",";","\n">>

\* 'CREATE OR REPLACE SEMANTIC VIEW m AS\n  performance.AVG,\n  segments.total_segments,\n  DEMOGRAPHICS.Max,\n  nope.Average_ROI,\n  DEMOGRAPHICS.missing,\n  audience_demographics.Audience_ID,\n  nope.x;\n'
stmt_view_metrics ==
    <<"C","R","E","A","T","E"," ","O","R"," ","R","E","P","L","A","C","E"," ","S","E","M","A",
      "N","T","I","C"," ","V","I","E","W"," ","m"," ","A","S","\n"," "," ","p","e","r","f","o",
      "r","m","a","n","c","e",".","A","V","G",",","\n"," "," ","s","e","g","m","e","n","t","s",
      ".","t","o","t","a","l","_","s","e","g","m","e","n","t","s",",","\n"," "," ","D","E","M",
      "O","G","R","A","P","H","I","C","S",".","M","a","x",",","\n"," "," ","n","o","p","e",".",
      "A","v","e","r","a","g","e","_","R","O","I",",","\n"," "," ","D","E","M","O","G","R","A",
      "P","H","I","C","S",".","m","i","s","s","i","n","g",",","\n"," "," ","a","u","d","i","e",
      "n","c","e","_","d","e","m","o","g","r","a","p","h","i","c","s",".","A","u","d","i","e",
      "n","c","e","_","I","D",",","\n"," "," ","n","o","p","e",".","x",";","\n">>

\* 'create or replace semantic view c AS\n  creatives.creative_id,\n  creatives.created_date,\n  consent.opt_in;\n'
stmt_view_creatives ==
    <<"c","r","e","a","t","e"," ","o","r"," ","r","e","p","l","a","c","e"," ","s","e","m","a",
      "n","t","i","c"," ","v","i","e","w"," ","c"," ","A","S","\n"," "," ","c","r","e","a","t",
      "i","v","e","s",".","c","r","e","a","t","i","v","e","_","i","d",",","\n"," "," ","c","r",
      "e","a","t","i","v","e","s",".","c","r","e","a","t","e","d","_","d","a","t","e",",","\n",
      " "," ","c","o","n","s","e","n","t",".","o","p","t","_","i","n",";","\n">>

\* ------------------------------------------------------------------------
\* extract_table_columns
\* ------------------------------------------------------------------------

\* `\);` after the lazy `(.*?)`: the first position at or after j where
\* ");" stands, 0 when there is none
find_body_end(s, j) ==
    first_position(j, Len(s) - 1,
        [c \in j..(Len(s) - 1) |-> s[c] = ")" /\ s[c + 1] = ";"])

\* table_pattern = r'CREATE OR REPLACE TABLE (\w+) \((.*?)\);' tried at
\* position i under re.DOTALL | re.IGNORECASE
table_pattern_match(s, i) ==
    IF ~match_literal_ignorecase(s, i, table_pattern_head)
    THEN [matched |-> FALSE]
    ELSE LET n == i + Len(table_pattern_head)
             e == word_end(s, n)
         IN  IF e = n \/ ~startswith_at(s, e, <<" ", "(">>)
             THEN [matched |-> FALSE]
             ELSE LET c == find_body_end(s, e + 2)
                  IN  IF c = 0
                      THEN [matched |-> FALSE]
                      ELSE [matched     |-> TRUE,
                            table_name  |-> SubSeq(s, n, e - 1),
                            columns_def |-> SubSeq(s, e + 2, c - 1),
                            end         |-> c + 2]

\* re.findall(table_pattern, sql_content, ...): the non-overlapping matches
\* from left to right, scanning from position i
RECURSIVE findall_table_pattern(_, _)
findall_table_pattern(s, i) ==
    LET at == first_position(i, Len(s),
                [j \in i..Len(s) |-> table_pattern_match(s, j).matched])
    IN  IF at = 0 THEN <<>>
        ELSE LET m == table_pattern_match(s, at)
             IN  <<[table_name |-> m.table_name, columns_def |-> m.columns_def]>>
                 \o findall_table_pattern(s, m.end)

\* one iteration of `for line in column_lines`: the column the line appends
\* to columns, as a list of zero or one names
column_of_line(raw_line) ==
    LET line == str_strip(raw_line)
    IN  IF /\ line # <<>>
           /\ ~startswith_at(line, 1, <<"-", "-">>)
           /\ ~startswith_at(line, 1, foreign_key_prefix)
           /\ word_end(line, 1) > 1
        THEN <<SubSeq(line, 1, word_end(line, 1) - 1)>>
        ELSE <<>>

RECURSIVE columns_of_lines(_, _)
columns_of_lines(column_lines, k) ==
    IF k > Len(column_lines) THEN <<>>
    ELSE column_of_line(column_lines[k]) \o columns_of_lines(column_lines, k + 1)

\* the columns list built from one columns_def
columns_of_def(columns_def) ==
    columns_of_lines(str_split_lines(columns_def), 1)

\* dict_set that keeps an entry the key already has
dict_set_keeps_first(d, key, value) ==
    [x \in DOMAIN d \cup {key} |-> IF x \in DOMAIN d THEN d[x] ELSE value]

\* tables[key] = value
dict_set(d, key, value) ==
    [x \in DOMAIN d \cup {key} |-> IF x = key THEN value ELSE d[x]]

\* tables = {}
empty_dict ==
    [x \in {} |-> <<>>]

\* `for table_name, columns_def in matches`, from the k-th match on
RECURSIVE tables_from_matches(_, _, _)
tables_from_matches(matches, k, tables_so_far) ==
    IF k > Len(matches) THEN tables_so_far
    ELSE tables_from_matches(matches, k + 1,
            dict_set(tables_so_far,
                     str_lower(matches[k].table_name),
                     columns_of_def(matches[k].columns_def)))

extract_table_columns(sql) ==
    tables_from_matches(findall_table_pattern(sql, 1), 1, empty_dict)

\* ------------------------------------------------------------------------
\* extract_semantic_view_references
\* ------------------------------------------------------------------------

\* `$` without re.MULTILINE: the end of the text, or just before a newline
\* that ends the text
at_dollar(s, j) ==
    \/ j = Len(s) + 1
    \/ j = Len(s) /\ s[j] = "\n"

\* block_end with the lookahead reduced to `(?=$)`: a block runs to the end
\* of the text
block_end_only_dollar(s, j) ==
    first_position(j, Len(s) + 1, [e \in j..(Len(s) + 1) |-> at_dollar(s, e)])

\* `.*?(?=CREATE|$)`: the first position at or after j where the lookahead
\* succeeds
block_end(s, j) ==
    first_position(j, Len(s) + 1,
        [e \in j..(Len(s) + 1) |->
            match_literal_ignorecase(s, e, lookahead_create) \/ at_dollar(s, e)])

\* re.findall(semantic_pattern, sql_content, re.DOTALL | re.IGNORECASE),
\* scanning from position i: the matched texts
RECURSIVE findall_semantic_pattern(_, _)
findall_semantic_pattern(s, i) ==
    LET at == first_position(i, Len(s),
                [j \in i..Len(s) |->
                    match_literal_ignorecase(s, j, semantic_pattern_head)])
    IN  IF at = 0 THEN <<>>
        ELSE LET e == block_end(s, at + Len(semantic_pattern_head))
             IN  <<SubSeq(s, at, e - 1)>> \o findall_semantic_pattern(s, e)

\* ref_pattern = r'(\w+)\.(\w+)' tried at position i
ref_pattern_match(s, i) ==
    LET a == word_end(s, i)
    IN  a > i /\ a <= Len(s) /\ s[a] = "." /\ word_end(s, a + 1) > a + 1

\* re.findall(ref_pattern, match), scanning from position i: the
\* (alias, column) pairs
RECURSIVE findall_ref_pattern(_, _)
findall_ref_pattern(s, i) ==
    LET at == first_position(i, Len(s), [j \in i..Len(s) |-> ref_pattern_match(s, j)])
    IN  IF at = 0 THEN <<>>
        ELSE LET a == word_end(s, at)
                 b == word_end(s, a + 1)
             IN  << <<SubSeq(s, at, a - 1), SubSeq(s, a + 1, b - 1)>> >>
                 \o findall_ref_pattern(s, b)

\* `for match in matches: references.extend(refs)`, from the k-th match on
RECURSIVE references_of_matches(_, _)
references_of_matches(matches, k) ==
    IF k > Len(matches) THEN <<>>
    ELSE findall_ref_pattern(matches[k], 1) \o references_of_matches(matches, k + 1)

extract_semantic_view_references(sql) ==
    references_of_matches(findall_semantic_pattern(sql, 1), 1)

\* ------------------------------------------------------------------------
\* Input files: snowflake_setup.sql is a sequence of SQL statements
\* ------------------------------------------------------------------------

Statements ==
    {"table_one_line", "table_multi_line", "table_plain", "table_empty",
     "table_alias_named", "view_demo", "view_metrics", "view_creatives"}

StatementText ==
    [st \in Statements |->
        CASE st = "table_one_line"   -> stmt_table_one_line
          [] st = "table_multi_line" -> stmt_table_multi_line
          [] st = "table_plain"      -> stmt_table_plain
          [] st = "table_empty"      -> stmt_table_empty
          [] st = "table_alias_named" -> stmt_table_alias_named
          [] st = "view_demo"        -> stmt_view_demo
          [] st = "view_metrics"     -> stmt_view_metrics
          [] st = "view_creatives"   -> stmt_view_creatives]

\* the files of at most MaxStmts statements
Files ==
    UNION {[1..n -> Statements] : n \in 0..MaxStmts}

\* the text of a file: its statements one after the other
RECURSIVE file_text(_, _)
file_text(stmts, k) ==
    IF k > Len(stmts) THEN <<>>
    ELSE StatementText[stmts[k]] \o file_text(stmts, k + 1)

\* ------------------------------------------------------------------------
\* validate_column_references and main
\* ------------------------------------------------------------------------

VARIABLES
    file_exists,    \* os.path.exists(sql_file)
    file_stmts,     \* the statements snowflake_setup.sql is made of
    pc,             \* position in main / validate_column_references
    sql_content,    \* f.read()
    tables,         \* extract_table_columns(sql_content)
    references,     \* extract_semantic_view_references(sql_content)
    ref_index,      \* position of the for loop in references, from 1
    errors,         \* the error lines, in order
    warnings,       \* the warning lines, in order
    checked,        \* the printed 'Column references checked' count
    success,        \* the value validate_column_references / main returns
    exit_code,      \* the argument of exit(), -1 while running
    run,            \* 1 in the first run of the checker, 2 in a repeated run
    first_report,   \* what the first run reported, for a repeated run
    num_campaigns,  \* NUM_CAMPAIGNS
    gen_pc,         \* position in generate_campaigns_and_link_creatives
    campaigns,      \* the campaign_id of every generated campaign, in order
    creatives,      \* the campaign_id of every creative, None while not linked
    creative_index, \* creative_index
    campaign_i,     \* i of `for i, campaign in enumerate(campaigns)`
    creative_j      \* j of `for j in range(num_creatives_for_campaign)`

checker_vars ==
    <<file_exists, file_stmts, pc, sql_content, tables, references,
      ref_index, errors, warnings, checked, success, exit_code>>

rerun_vars ==
    <<run, first_report>>

generator_vars ==
    <<num_campaigns, gen_pc, campaigns, creatives, creative_index,
      campaign_i, creative_j>>

vars ==
    <<checker_vars, rerun_vars, generator_vars>>

\* what a run reports: the extracted data, the lists, the summary and the
\* process result
report ==
    [tables |-> tables, references |-> references, errors |-> errors,
     warnings |-> warnings, checked |-> checked, success |-> success,
     exit_code |-> exit_code]

\* the data generator is not running
GeneratorIdle ==
    /\ num_campaigns = 0
    /\ gen_pc = "idle"
    /\ campaigns = <<>>
    /\ creatives = <<>>
    /\ creative_index = 0
    /\ campaign_i = 0
    /\ creative_j = 0

\* the checker at the start of main, no statement executed yet
CheckerStart ==
    /\ pc = "main"
    /\ sql_content = <<>>
    /\ tables = empty_dict
    /\ references = <<>>
    /\ ref_index = 1
    /\ errors = <<>>
    /\ warnings = <<>>
    /\ checked = 0
    /\ success = FALSE
    /\ exit_code = -1
    /\ run = 1
    /\ first_report = [tables |-> empty_dict, references |-> <<>>, errors |-> <<>>,
                       warnings |-> <<>>, checked |-> 0, success |-> FALSE,
                       exit_code |-> -1]

Init ==
    /\ file_exists \in BOOLEAN
    /\ file_stmts \in Files
    /\ CheckerStart
    /\ GeneratorIdle

\* alias_mapping.get(key, default)
alias_mapping_get(key, default) ==
    IF \E item \in alias_mapping_items : item[1] = key
    THEN (CHOOSE item \in alias_mapping_items : item[1] = key)[2]
    ELSE default

\* is_computed without .upper() and .lower(): only the listed letter-case
is_computed_listed_case(column) ==
    \/ column \in aggregate_keywords
    \/ column \in computed_metrics

\* the condition of `continue`: a computed metric or function
is_computed(column) ==
    \/ str_upper(column) \in aggregate_keywords
    \/ str_lower(column) \in computed_metrics

\* resolve_table_name looking the alias up as written: alias_mapping.get(alias,
\* alias_lower)
resolve_table_name_key_as_written(alias) ==
    alias_mapping_get(alias, str_lower(alias))

\* resolve_table_name trying the alias itself as a table name before the
\* alias map
resolve_table_name_direct_first(alias) ==
    IF str_lower(alias) \in DOMAIN tables
    THEN str_lower(alias)
    ELSE alias_mapping_get(str_lower(alias), str_lower(alias))

\* table_name = alias_mapping.get(alias_lower, alias_lower)
resolve_table_name(alias) ==
    alias_mapping_get(str_lower(alias), str_lower(alias))

\* matching_columns without col.lower(): col == column_lower
matching_columns_no_lower(actual_columns, column_lower) ==
    SelectSeq(actual_columns, LAMBDA col : col = column_lower)

\* [col for col in actual_columns if col.lower() == column_lower]
matching_columns(actual_columns, column_lower) ==
    SelectSeq(actual_columns, LAMBDA col : str_lower(col) = column_lower)

\* f"Case mismatch: {alias}.{column} should be {alias}.{correct_column}"
case_mismatch_line(alias, column, correct_column) ==
    [kind |-> "Case mismatch", alias |-> alias, column |-> column,
     correct_column |-> correct_column]

\* f"Column not found: {alias}.{column} in table {table_name}"
column_not_found_line(alias, column, table_name) ==
    [kind |-> "Column not found", alias |-> alias, column |-> column,
     table_name |-> table_name]

\* f"Table not found: {table_name} for alias {alias}"
table_not_found_line(table_name, alias) ==
    [kind |-> "Table not found", table_name |-> table_name, alias |-> alias]

\* len(tables), the count of 'Found {len(tables)} tables' and of the summary
tables_found ==
    Cardinality(DOMAIN tables)

\* main: the SQL file does not exist
MainFileMissing ==
    /\ pc = "main"
    /\ ~file_exists
    /\ success' = FALSE
    /\ pc' = "exit"
    /\ UNCHANGED <<file_exists, file_stmts, sql_content, tables, references,
                   ref_index, errors, warnings, checked, exit_code>>
    /\ UNCHANGED <<rerun_vars, generator_vars>>

\* with open(sql_file_path, 'r') as f: sql_content = f.read()
ReadFile ==
    /\ pc = "main"
    /\ file_exists
    /\ sql_content' = file_text(file_stmts, 1)
    /\ pc' = "extract_tables"
    /\ UNCHANGED <<file_exists, file_stmts, tables, references, ref_index,
                   errors, warnings, checked, success, exit_code>>
    /\ UNCHANGED <<rerun_vars, generator_vars>>

ExtractTables ==
    /\ pc = "extract_tables"
    /\ tables' = extract_table_columns(sql_content)
    /\ pc' = "extract_references"
    /\ UNCHANGED <<file_exists, file_stmts, sql_content, references, ref_index,
                   errors, warnings, checked, success, exit_code>>
    /\ UNCHANGED <<rerun_vars, generator_vars>>

\* ExtractReferences with errors and warnings kept from the run before, as
\* if the two lists were created once and not in each call
ExtractReferences_keeps_lists ==
    /\ pc = "extract_references"
    /\ references' = extract_semantic_view_references(sql_content)
    /\ ref_index' = 1
    /\ pc' = "loop"
    /\ UNCHANGED <<file_exists, file_stmts, sql_content, tables, checked,
                   success, exit_code, errors, warnings>>
    /\ UNCHANGED <<rerun_vars, generator_vars>>

ExtractReferences ==
    /\ pc = "extract_references"
    /\ references' = extract_semantic_view_references(sql_content)
    /\ ref_index' = 1
    /\ errors' = <<>>
    /\ warnings' = <<>>
    /\ pc' = "loop"
    /\ UNCHANGED <<file_exists, file_stmts, sql_content, tables, checked,
                   success, exit_code>>
    /\ UNCHANGED <<rerun_vars, generator_vars>>

\* the loop is at a reference
InLoop ==
    pc = "loop" /\ ref_index <= Len(references)

\* one iteration leaves everything but the lists and the position alone
LoopFrame ==
    /\ ref_index' = ref_index + 1
    /\ UNCHANGED <<file_exists, file_stmts, pc, sql_content, tables, references,
                   checked, success, exit_code>>
    /\ UNCHANGED <<rerun_vars, generator_vars>>

\* `continue` on a computed metric or function
SkipComputed ==
    /\ InLoop
    /\ is_computed(references[ref_index][2])
    /\ UNCHANGED <<errors, warnings>>
    /\ LoopFrame

\* TableNotFound appending its line to errors instead of warnings
TableNotFound_as_error ==
    /\ InLoop
    /\ LET alias == references[ref_index][1]
           column == references[ref_index][2]
           table_name == resolve_table_name(alias)
       IN  /\ ~is_computed(column)
           /\ table_name \notin DOMAIN tables
           /\ errors' = Append(errors, table_not_found_line(table_name, alias))
           /\ UNCHANGED warnings
    /\ LoopFrame

\* else branch of `if table_name in tables`
TableNotFound ==
    /\ InLoop
    /\ LET alias == references[ref_index][1]
           column == references[ref_index][2]
           table_name == resolve_table_name(alias)
       IN  /\ ~is_computed(column)
           /\ table_name \notin DOMAIN tables
           /\ warnings' = Append(warnings, table_not_found_line(table_name, alias))
           /\ UNCHANGED errors
    /\ LoopFrame

\* `column not in actual_columns` is false
ColumnExact ==
    /\ InLoop
    /\ LET alias == references[ref_index][1]
           column == references[ref_index][2]
           table_name == resolve_table_name(alias)
       IN  /\ ~is_computed(column)
           /\ table_name \in DOMAIN tables
           /\ InList(column, tables[table_name])
           /\ UNCHANGED <<errors, warnings>>
    /\ LoopFrame

\* CaseMismatch falling through to the warning of the else branch as well
CaseMismatch_also_warns ==
    /\ InLoop
    /\ LET alias == references[ref_index][1]
           column == references[ref_index][2]
           table_name == resolve_table_name(alias)
       IN  /\ ~is_computed(column)
           /\ table_name \in DOMAIN tables
           /\ ~InList(column, tables[table_name])
           /\ LET matching == matching_columns(tables[table_name], str_lower(column))
              IN  /\ matching # <<>>
                  /\ errors' = Append(errors,
                                  case_mismatch_line(alias, column, matching[1]))
           /\ warnings' = Append(warnings,
                             column_not_found_line(alias, column, table_name))
    /\ LoopFrame

\* CaseMismatch reading matching_columns[1]: an IndexError, hence no step,
\* when a single column matches
CaseMismatch_second_match ==
    /\ InLoop
    /\ LET alias == references[ref_index][1]
           column == references[ref_index][2]
           table_name == resolve_table_name(alias)
       IN  /\ ~is_computed(column)
           /\ table_name \in DOMAIN tables
           /\ ~InList(column, tables[table_name])
           /\ LET matching == matching_columns(tables[table_name], str_lower(column))
              IN  /\ Len(matching) >= 2
                  /\ errors' = Append(errors,
                                  case_mismatch_line(alias, column, matching[2]))
           /\ UNCHANGED warnings
    /\ LoopFrame

\* CaseMismatch suggesting the last matching column: matching_columns[-1]
CaseMismatch_last_match ==
    /\ InLoop
    /\ LET alias == references[ref_index][1]
           column == references[ref_index][2]
           table_name == resolve_table_name(alias)
       IN  /\ ~is_computed(column)
           /\ table_name \in DOMAIN tables
           /\ ~InList(column, tables[table_name])
           /\ LET matching == matching_columns(tables[table_name], str_lower(column))
              IN  /\ matching # <<>>
                  /\ errors' = Append(errors,
                                  case_mismatch_line(alias, column,
                                                     matching[Len(matching)]))
           /\ UNCHANGED warnings
    /\ LoopFrame

\* `if matching_columns`
CaseMismatch ==
    /\ InLoop
    /\ LET alias == references[ref_index][1]
           column == references[ref_index][2]
           table_name == resolve_table_name(alias)
       IN  /\ ~is_computed(column)
           /\ table_name \in DOMAIN tables
           /\ ~InList(column, tables[table_name])
           /\ LET matching == matching_columns(tables[table_name], str_lower(column))
              IN  /\ matching # <<>>
                  /\ errors' = Append(errors,
                                  case_mismatch_line(alias, column, matching[1]))
           /\ UNCHANGED warnings
    /\ LoopFrame

\* else branch of `if matching_columns`
ColumnNotFound ==
    /\ InLoop
    /\ LET alias == references[ref_index][1]
           column == references[ref_index][2]
           table_name == resolve_table_name(alias)
       IN  /\ ~is_computed(column)
           /\ table_name \in DOMAIN tables
           /\ ~InList(column, tables[table_name])
           /\ matching_columns(tables[table_name], str_lower(column)) = <<>>
           /\ warnings' = Append(warnings,
                             column_not_found_line(alias, column, table_name))
           /\ UNCHANGED errors
    /\ LoopFrame

\* len([r for r in references if r[1] not in ['COUNT', 'SUM', 'AVG']])
references_checked(refs) ==
    Len(SelectSeq(refs, LAMBDA r : r[2] \notin summary_excluded))

\* PrintSummary returning len(errors) == 0 and len(warnings) == 0
PrintSummary_warnings_fail ==
    /\ pc = "loop"
    /\ ref_index > Len(references)
    /\ checked' = references_checked(references)
    /\ success' = (Len(errors) = 0 /\ Len(warnings) = 0)
    /\ pc' = "exit"
    /\ UNCHANGED <<file_exists, file_stmts, sql_content, tables, references,
                   ref_index, errors, warnings, exit_code>>
    /\ UNCHANGED <<rerun_vars, generator_vars>>

\* the summary is printed and validate_column_references returns
\* len(errors) == 0, which main returns in turn
PrintSummary ==
    /\ pc = "loop"
    /\ ref_index > Len(references)
    /\ checked' = references_checked(references)
    /\ success' = (Len(errors) = 0)
    /\ pc' = "exit"
    /\ UNCHANGED <<file_exists, file_stmts, sql_content, tables, references,
                   ref_index, errors, warnings, exit_code>>
    /\ UNCHANGED <<rerun_vars, generator_vars>>

\* exit(0 if success else 1)
Exit ==
    /\ pc = "exit"
    /\ exit_code' = (IF success THEN 0 ELSE 1)
    /\ pc' = "done"
    /\ UNCHANGED <<file_exists, file_stmts, sql_content, tables, references,
                   ref_index, errors, warnings, checked, success>>
    /\ UNCHANGED <<rerun_vars, generator_vars>>

Next ==
    \/ MainFileMissing
    \/ ReadFile
    \/ ExtractTables
    \/ ExtractReferences
    \/ SkipComputed
    \/ TableNotFound
    \/ ColumnExact
    \/ CaseMismatch
    \/ ColumnNotFound
    \/ PrintSummary
    \/ Exit

Spec ==
    Init /\ [][Next]_vars

\* control passes the assignment of line 59: the step ExtractTables seen on
\* the program counter alone
TablesExtracted ==
    pc = "extract_tables" /\ pc' = "extract_references"

\* control passes the assignment of line 65: the step ExtractReferences seen
\* on the program counter alone
ReferencesExtracted ==
    pc = "extract_references" /\ pc' = "loop"

\* the interpreter runs the script to its end: a statement that can execute
\* does execute. The two extraction steps can execute whenever control is at
\* them, so their fairness is stated on the program counter.
FairSpec ==
    /\ Spec
    /\ WF_vars(MainFileMissing)
    /\ WF_vars(ReadFile)
    /\ WF_pc(TablesExtracted)
    /\ WF_pc(ReferencesExtracted)
    /\ WF_vars(SkipComputed)
    /\ WF_vars(TableNotFound)
    /\ WF_vars(ColumnExact)
    /\ WF_vars(CaseMismatch)
    /\ WF_vars(ColumnNotFound)
    /\ WF_vars(PrintSummary)
    /\ WF_vars(Exit)

\* the script is started a second time on the same file: the report of the
\* first run is noted, and whatever the first run left behind stays where
\* it is
RunAgain ==
    /\ pc = "done"
    /\ run = 1
    /\ run' = 2
    /\ first_report' = report
    /\ pc' = "main"
    /\ UNCHANGED <<file_exists, file_stmts, sql_content, tables, references,
                   ref_index, errors, warnings, checked, success, exit_code>>
    /\ UNCHANGED generator_vars

NextTwice ==
    \/ MainFileMissing
    \/ ReadFile
    \/ ExtractTables
    \/ ExtractReferences
    \/ SkipComputed
    \/ TableNotFound
    \/ ColumnExact
    \/ CaseMismatch
    \/ ColumnNotFound
    \/ PrintSummary
    \/ Exit
    \/ RunAgain

SpecTwice ==
    Init /\ [][NextTwice]_vars

\* ------------------------------------------------------------------------
\* What the input file declares, statement by statement
\* ------------------------------------------------------------------------

ViewStatements ==
    {"view_demo", "view_metrics", "view_creatives"}

TableStatements ==
    Statements \ ViewStatements

\* the run has read the file and extracted tables and references
Extracted ==
    file_exists /\ pc \in {"loop", "exit", "done"}

\* the run is over and the file was read
Finished ==
    file_exists /\ pc = "done"

\* number of positions of seq that hold x
Count(seq, x) ==
    Cardinality({k \in 1..Len(seq) : seq[k] = x})

\* every identifier.identifier of a statement, in textual order
StatementPairs ==
    [st \in Statements |-> findall_ref_pattern(StatementText[st], 1)]

\* the dotted pairs of the semantic-view statements of a file, in document
\* order: each view statement runs up to the CREATE of the next statement
RECURSIVE view_block_references(_, _)
view_block_references(stmts, k) ==
    IF k > Len(stmts) THEN <<>>
    ELSE (IF stmts[k] \in ViewStatements
          THEN StatementPairs[stmts[k]]
          ELSE <<>>) \o view_block_references(stmts, k + 1)

\* a column name that is an aggregate keyword or a named computed metric,
\* compared without regard to letter-case
PseudoColumn(column) ==
    str_lower(column) \in
        {str_lower(kw) : kw \in aggregate_keywords} \cup
        {str_lower(metric) : metric \in computed_metrics}

\* the outcome the classification rules give a reference against a schema
Outcome(ref, schema) ==
    IF PseudoColumn(ref[2]) THEN "SKIPPED"
    ELSE LET table_name == resolve_table_name(ref[1])
         IN  IF table_name \notin DOMAIN schema THEN "TABLE_NOT_FOUND"
             ELSE IF \E k \in 1..Len(schema[table_name]) :
                        schema[table_name][k] = ref[2]
                  THEN "OK"
                  ELSE IF \E k \in 1..Len(schema[table_name]) :
                             str_lower(schema[table_name][k]) = str_lower(ref[2])
                       THEN "CASE_MISMATCH"
                       ELSE "COLUMN_NOT_FOUND"

\* number of the first n references with an outcome in outcomes
OutcomeCount(n, outcomes) ==
    Cardinality({k \in 1..n : Outcome(references[k], tables) \in outcomes})

\* the table each table statement declares: its name as written and its
\* column names in declared order
DeclaredTable ==
    [st \in TableStatements |->
        CASE st = "table_one_line" ->
                [name |-> <<"a","u","d","i","e","n","c","e","_","d","e","m","o","g","r","a","p","h","i","c","s">>,
                 columns |-> <<<<"a","u","d","i","e","n","c","e","_","i","d">>,
                              <<"A","g","e","_","G","r","o","u","p">>>>]
          [] st = "table_multi_line" ->
                [name |-> <<"A","u","d","i","e","n","c","e","_","D","e","m","o","g","r","a","p","h","i","c","s">>,
                 columns |-> <<<<"a","u","d","i","e","n","c","e","_","i","d">>,
                              <<"A","g","e","_","G","r","o","u","p">>,
                              <<"A","G","E","_","G","R","O","U","P">>>>]
          [] st = "table_plain" ->
                [name |-> <<"c","r","e","a","t","i","v","e","_","m","e","t","a","d","a","t","a">>,
                 columns |-> <<<<"c","r","e","a","t","i","v","e","_","i","d">>,
                              <<"c","r","e","a","t","e","d","_","d","a","t","e">>>>]
          [] st = "table_empty" ->
                [name |-> <<"c","o","n","s","e","n","t","_","p","r","i","v","a","c","y">>,
                 columns |-> <<>>]
          [] st = "table_alias_named" ->
                [name |-> <<"d","e","m","o","g","r","a","p","h","i","c","s">>,
                 columns |-> <<<<"a","g","e","_","g","r","o","u","p">>>>]]


\* the last statement of the file that declares the table named like the
\* k-th statement does, letter-case ignored
LastDeclaration(stmts, k) ==
    CHOOSE j \in k..Len(stmts) :
        /\ stmts[j] \in TableStatements
        /\ str_lower(DeclaredTable[stmts[j]].name) = str_lower(DeclaredTable[stmts[k]].name)
        /\ \A m \in (j + 1)..Len(stmts) :
              stmts[m] \in TableStatements =>
                  str_lower(DeclaredTable[stmts[m]].name)
                      # str_lower(DeclaredTable[stmts[k]].name)

\* ------------------------------------------------------------------------
\* Claims
\* ------------------------------------------------------------------------

\* C1: for the file made of the one-line table audience_demographics
\* (audience_id VARCHAR, Age_Group VARCHAR) and the view that references
\* demographics.audience_id and demographics.age_group, the run reports 1
\* table and 2 references, exactly one case-mismatch error for age_group
\* with correction Age_Group, no warning, and exits with code 1.
C1_EndToEndScenario ==
    (Finished /\ file_stmts = <<"table_one_line", "view_demo">>) =>
        /\ Cardinality(DOMAIN tables) = 1
        /\ Len(references) = 2
        /\ errors = <<case_mismatch_line(
                        <<"d","e","m","o","g","r","a","p","h","i","c","s">>,
                        <<"a","g","e","_","g","r","o","u","p">>,
                        <<"A","g","e","_","G","r","o","u","p">>)>>
        /\ warnings = <<>>
        /\ ~success
        /\ exit_code = 1

\* C2: every loop iteration on a reference that is not a pseudo-column does
\* exactly one of, in this order: table not a key of the schema -> one
\* 'Table not found' warning; column present verbatim -> nothing; a column
\* equal ignoring case -> one 'Case mismatch' error carrying that column;
\* otherwise -> one 'Column not found' warning.
C2_ClassificationRules ==
    [][(InLoop /\ ~is_computed(references[ref_index][2])) =>
        LET alias == references[ref_index][1]
            column == references[ref_index][2]
            table_name == resolve_table_name(alias)
        IN  IF table_name \notin DOMAIN tables
            THEN /\ warnings' = warnings \o <<table_not_found_line(table_name, alias)>>
                 /\ errors' = errors
            ELSE IF \E k \in 1..Len(tables[table_name]) : tables[table_name][k] = column
            THEN errors' = errors /\ warnings' = warnings
            ELSE IF \E k \in 1..Len(tables[table_name]) :
                       str_lower(tables[table_name][k]) = str_lower(column)
            THEN /\ warnings' = warnings
                 /\ \E k \in 1..Len(tables[table_name]) :
                       /\ str_lower(tables[table_name][k]) = str_lower(column)
                       /\ errors' = errors \o
                            <<case_mismatch_line(alias, column, tables[table_name][k])>>
            ELSE /\ warnings' = warnings \o
                        <<column_not_found_line(alias, column, table_name)>>
                 /\ errors' = errors
       ]_vars

\* C2 witness: a finished run in which all four outcomes occurred
C2_Witness ==
    /\ Finished
    /\ \A o \in {"OK", "CASE_MISMATCH", "COLUMN_NOT_FOUND", "TABLE_NOT_FOUND"} :
          OutcomeCount(Len(references), {o}) > 0
    /\ Len(errors) > 0
    /\ \E k \in 1..Len(warnings) : warnings[k].kind = "Table not found"
    /\ \E k \in 1..Len(warnings) : warnings[k].kind = "Column not found"

\* C3: when the file was read, the run succeeds and exits with code 0 if
\* and only if the error list is empty, that is if no reference is a case
\* mismatch; warnings never make it fail.
C3_SuccessIffNoErrors ==
    Finished =>
        /\ success <=> (errors = <<>>)
        /\ (exit_code = 0) <=> (errors = <<>>)
        /\ (exit_code = 1) <=> (errors # <<>>)
        /\ (errors = <<>>) <=> (OutcomeCount(Len(references), {"CASE_MISMATCH"}) = 0)

\* C3 witness: a run with both kinds of warning and no error exits with 0
C3_Witness ==
    /\ Finished
    /\ \E k \in 1..Len(warnings) : warnings[k].kind = "Table not found"
    /\ \E k \in 1..Len(warnings) : warnings[k].kind = "Column not found"
    /\ errors = <<>>
    /\ exit_code = 0

\* C4: a loop iteration on a reference whose column is an aggregate keyword
\* or a named computed metric, in any letter-case, adds no error line and
\* no warning line, whether or not its alias resolves to a declared table.
C4_PseudoColumnsSilent ==
    [][(InLoop /\ PseudoColumn(references[ref_index][2])) =>
            (errors' = errors /\ warnings' = warnings)]_vars

\* C4 witness: the loop has passed a pseudo-column whose alias resolves to a
\* declared table and one whose alias does not, neither in the listed case
C4_Witness ==
    /\ pc = "loop"
    /\ \E k \in 1..(ref_index - 1) :
          /\ PseudoColumn(references[k][2])
          /\ references[k][2] \notin aggregate_keywords \cup computed_metrics
          /\ resolve_table_name(references[k][1]) \in DOMAIN tables
    /\ \E k \in 1..(ref_index - 1) :
          /\ PseudoColumn(references[k][2])
          /\ references[k][2] \notin aggregate_keywords \cup computed_metrics
          /\ resolve_table_name(references[k][1]) \notin DOMAIN tables

\* C5: the printed 'Column references checked' count is the number of
\* extracted references that are not pseudo-columns.
C5_CheckedCountExcludesPseudo ==
    Finished =>
        checked = Cardinality({k \in 1..Len(references) :
                                  ~PseudoColumn(references[k][2])})

\* C6: the extracted references are all the dotted pairs of every
\* semantic-view block, in textual order, blocks in document order; none is
\* lost, also after a name that contains the letters 'create'.
C6_AllBlockReferences ==
    Extracted => references = view_block_references(file_stmts, 1)

\* C7: a dotted identifier outside every semantic-view block, such as one in
\* the body of a table statement before, between or after views, is never
\* returned: every pair is returned at most as often as the blocks hold it.
C7_NothingOutsideBlocks ==
    Extracted =>
        LET in_blocks == view_block_references(file_stmts, 1)
        IN  \A k \in 1..Len(references) :
                Count(references, references[k]) <= Count(in_blocks, references[k])

\* C7 witness: references were returned from a file whose table statement
\* with a dotted identifier stands between two views
C7_Witness ==
    /\ Extracted
    /\ references # <<>>
    /\ \E k \in 1..(Len(file_stmts) - 2) :
          /\ file_stmts[k] \in ViewStatements
          /\ file_stmts[k + 1] = "table_multi_line"
          /\ file_stmts[k + 2] \in ViewStatements
    /\ StatementPairs["table_multi_line"] # <<>>

\* C8: the schema has one entry for every table definition of the shape
\* CREATE TABLE <name> ( <body> ) of the text, keywords in any letter-case,
\* keyed by the lower-cased name and holding the declared column names in
\* declared order and letter-case.
C8_EveryTableExtracted ==
    Extracted =>
        /\ DOMAIN tables =
              {str_lower(DeclaredTable[file_stmts[k]].name) :
                  k \in {j \in 1..Len(file_stmts) : file_stmts[j] \in TableStatements}}
        /\ \A k \in 1..Len(file_stmts) :
              file_stmts[k] \in TableStatements =>
                  LET name == str_lower(DeclaredTable[file_stmts[k]].name)
                  IN  /\ name \in DOMAIN tables
                      /\ tables[name] =
                            DeclaredTable[file_stmts[LastDeclaration(file_stmts, k)]].columns

\* C9: every table that is a key of the schema has a non-empty column list,
\* also when its body is empty or holds only comments and constraints.
C9_ColumnListsNonEmpty ==
    Extracted => \A name \in DOMAIN tables : Len(tables[name]) > 0

\* C10: while and after the loop runs, the errors are as many as the
\* processed references that are case mismatches, the warnings as many as
\* those that are column-not-found or table-not-found, errors plus warnings
\* never exceed the extracted references, and no iteration adds a line to
\* both lists.
C10_OutcomePartition ==
    /\ [](Extracted =>
            /\ Len(errors) = OutcomeCount(ref_index - 1, {"CASE_MISMATCH"})
            /\ Len(warnings) =
                  OutcomeCount(ref_index - 1, {"COLUMN_NOT_FOUND", "TABLE_NOT_FOUND"})
            /\ Len(errors) + Len(warnings) <= Len(references))
    /\ [][InLoop => (errors' = errors \/ warnings' = warnings)]_vars

\* C10 witness: a finished run with an error, a warning, a reference that is
\* OK and a skipped pseudo-column
C10_Witness ==
    /\ Finished
    /\ Len(errors) > 0
    /\ Len(warnings) > 0
    /\ OutcomeCount(Len(references), {"OK"}) > 0
    /\ OutcomeCount(Len(references), {"SKIPPED"}) > 0
    /\ Len(errors) + Len(warnings) < Len(references)

\* the keys of the alias map
AliasKeys ==
    {item[1] : item \in alias_mapping_items}

\* the table an alias stands for: the mapped table when the lower-cased alias
\* is a key of the alias map, the lower-cased alias otherwise
MappedOrSelf(alias) ==
    IF str_lower(alias) \in AliasKeys
    THEN (CHOOSE item \in alias_mapping_items : item[1] = str_lower(alias))[2]
    ELSE str_lower(alias)

\* C11: alias resolution is total and ignores the letter-case of the alias:
\* every warning names the mapped table when the lower-cased alias is a key
\* of the alias map and the lower-cased alias otherwise, every correction of
\* an error is a column of that table, and a finished run has resolved every
\* reference.
C11_AliasResolution ==
    Extracted =>
        /\ \A k \in 1..Len(warnings) :
              warnings[k].table_name = MappedOrSelf(warnings[k].alias)
        /\ \A k \in 1..Len(errors) :
              /\ MappedOrSelf(errors[k].alias) \in DOMAIN tables
              /\ \E c \in 1..Len(tables[MappedOrSelf(errors[k].alias)]) :
                    tables[MappedOrSelf(errors[k].alias)][c] = errors[k].correct_column
        /\ pc = "done" => ref_index = Len(references) + 1

\* C11 witness: a finished run warned about a mapped alias written in upper
\* case, a mapped alias written in lower case and an alias that is not mapped
C11_Witness ==
    /\ Finished
    /\ \E k \in 1..Len(warnings) :
          /\ str_lower(warnings[k].alias) \in AliasKeys
          /\ warnings[k].alias # str_lower(warnings[k].alias)
    /\ \E k \in 1..Len(warnings) : warnings[k].alias \in AliasKeys
    /\ \E k \in 1..Len(warnings) : str_lower(warnings[k].alias) \notin AliasKeys

\* the file declares no table at all
NoTableStatement ==
    \A k \in 1..Len(file_stmts) : file_stmts[k] \notin TableStatements

\* one 'Table not found' line for each of the references from the k-th on
\* that is not a pseudo-column, in order
RECURSIVE table_not_found_lines(_, _)
table_not_found_lines(refs, k) ==
    IF k > Len(refs) THEN <<>>
    ELSE (IF PseudoColumn(refs[k][2]) THEN <<>>
          ELSE <<table_not_found_line(MappedOrSelf(refs[k][1]), refs[k][1])>>)
         \o table_not_found_lines(refs, k + 1)

\* C12 as stated: when the text holds no table definition, the schema is
\* empty and every extracted reference gets one 'Table not found' warning,
\* with no error and a successful validation.
C12_EveryReferenceTableNotFound ==
    (Finished /\ NoTableStatement) =>
        /\ tables = empty_dict
        /\ Len(warnings) = Len(references)
        /\ \A k \in 1..Len(warnings) : warnings[k].kind = "Table not found"
        /\ errors = <<>>
        /\ success
        /\ exit_code = 0

\* C12 amended: when the text holds no table definition, the schema is empty
\* and every extracted reference that is not skipped as a pseudo-column gets
\* one 'Table not found' warning, in order; skipped references get none;
\* there is no error and the validation succeeds.
C12_EveryCheckedReferenceTableNotFound ==
    (Finished /\ NoTableStatement) =>
        /\ tables = empty_dict
        /\ warnings = table_not_found_lines(references, 1)
        /\ errors = <<>>
        /\ success
        /\ exit_code = 0

\* C12 witness: a finished run on a file without tables that warned about
\* some references and skipped others
C12_Witness ==
    /\ Finished
    /\ NoTableStatement
    /\ Len(warnings) > 0
    /\ Len(warnings) < Len(references)

\* C13: every run ends; a run that read the file ends with a complete
\* report (every reference processed, summary printed, result returned, exit
\* code 0 or 1), whatever the text holds; a run ends without a report only
\* when the file cannot be read, and then it exits with a non-zero code.
C13_AlwaysCompletes ==
    /\ <>(pc = "done")
    /\ [](pc = "done" =>
            IF file_exists
            THEN /\ sql_content = file_text(file_stmts, 1)
                 /\ ref_index = Len(references) + 1
                 /\ checked <= Len(references)
                 /\ success = (Len(errors) = 0)
                 /\ exit_code = (IF success THEN 0 ELSE 1)
            ELSE /\ exit_code # 0
                 /\ references = <<>> /\ errors = <<>> /\ warnings = <<>>)

\* C13 witness: a finished run on a file with views and no table, with an
\* alias that is not mapped
C13_Witness ==
    /\ Finished
    /\ DOMAIN tables = {}
    /\ \E k \in 1..Len(warnings) : str_lower(warnings[k].alias) \notin AliasKeys

\* C14: a second run of the checker on the same file reports what the first
\* run reported: the same tables, references, errors, warnings, count,
\* success value and exit code, whatever the first run left behind
C14_SecondRunSameReport ==
    (run = 2 /\ pc = "done") => report = first_report

\* C14 witness: a second run over a file with errors and warnings has ended
C14_Witness ==
    /\ run = 2
    /\ pc = "done"
    /\ file_exists
    /\ errors # <<>>
    /\ warnings # <<>>
    /\ DOMAIN tables # {}

\* the references that the classification rules give one of the outcomes, in
\* the order of the reference sequence
ClassifiedAs(refs, schema, outcomes) ==
    SelectSeq(refs, LAMBDA r : Outcome(r, schema) \in outcomes)

\* C15: a dotted pair that occurs k times inside semantic-view blocks is k
\* times in the reference sequence; the error list is the in-order
\* subsequence of the references classified as case mismatch and the warning
\* list the in-order subsequence of those classified as not-found, one line
\* for each occurrence.
C15_NoDedupNoReorder ==
    Finished =>
        LET in_blocks == view_block_references(file_stmts, 1)
            mismatches == ClassifiedAs(references, tables, {"CASE_MISMATCH"})
            not_found == ClassifiedAs(references, tables,
                                      {"COLUMN_NOT_FOUND", "TABLE_NOT_FOUND"})
        IN  /\ \A k \in 1..Len(in_blocks) :
                  Count(references, in_blocks[k]) = Count(in_blocks, in_blocks[k])
            /\ Len(errors) = Len(mismatches)
            /\ \A k \in 1..Len(errors) :
                  /\ errors[k].alias = mismatches[k][1]
                  /\ errors[k].column = mismatches[k][2]
            /\ Len(warnings) = Len(not_found)
            /\ \A k \in 1..Len(warnings) :
                  /\ warnings[k].alias = not_found[k][1]
                  /\ (warnings[k].kind = "Column not found"
                        => warnings[k].column = not_found[k][2])

\* the positions of the columns of a list that equal column when letter-case
\* is ignored
SameIgnoringCase(columns, column) ==
    {k \in 1..Len(columns) : str_lower(columns[k]) = str_lower(column)}

\* the smallest of a non-empty set of positions
FirstOf(positions) ==
    CHOOSE k \in positions : \A j \in positions : k <= j

\* C16: a loop iteration on a reference that is not a pseudo-column, whose
\* table is declared without the column verbatim but with several columns
\* equal to it ignoring case, adds exactly one 'Case mismatch' error whose
\* correction is the first of these columns in declared order, and no
\* warning.
C16_FirstMatchSuggested ==
    [][(/\ InLoop
        /\ ~PseudoColumn(references[ref_index][2])
        /\ MappedOrSelf(references[ref_index][1]) \in DOMAIN tables
        /\ ~InList(references[ref_index][2],
                   tables[MappedOrSelf(references[ref_index][1])])
        /\ Cardinality(SameIgnoringCase(
                tables[MappedOrSelf(references[ref_index][1])],
                references[ref_index][2])) >= 2)
       =>
        LET alias == references[ref_index][1]
            column == references[ref_index][2]
            columns == tables[MappedOrSelf(alias)]
        IN  /\ errors' = errors \o
                  <<case_mismatch_line(alias, column,
                        columns[FirstOf(SameIgnoringCase(columns, column))])>>
            /\ warnings' = warnings
       ]_vars

\* C16 witness: the run reported a case mismatch for a column that two
\* different declared columns equal ignoring case
C16_Witness ==
    /\ Extracted
    /\ \E k \in 1..Len(errors) :
          LET columns == tables[MappedOrSelf(errors[k].alias)]
              same == SameIgnoringCase(columns, errors[k].column)
          IN  /\ Cardinality(same) >= 2
              /\ \E a, b \in same : columns[a] # columns[b]
              /\ ~InList(errors[k].column, columns)

\* the keywords that begin a table constraint, in lower case
ConstraintKeywords ==
    {
          <<"f","o","r","e","i","g","n"," ","k","e","y">>,
          <<"p","r","i","m","a","r","y"," ","k","e","y">>,
          <<"c","o","n","s","t","r","a","i","n","t">>,
          <<"u","n","i","q","u","e">>,
          <<"c","h","e","c","k">>
    }

\* the line is blank, a line comment, or begins with a constraint keyword in
\* any letter-case
NotAColumnLine(line) ==
    \/ line = <<>>
    \/ startswith_at(line, 1, <<"-", "-">>)
    \/ \E kw \in ConstraintKeywords : match_literal_ignorecase(line, 1, kw)

\* the column names the lines from the k-th on contribute: the leading
\* identifier of every line that is a column line
RECURSIVE ColumnsOfBodyLines(_, _)
ColumnsOfBodyLines(lines, k) ==
    IF k > Len(lines) THEN <<>>
    ELSE LET line == str_strip(lines[k])
         IN  (IF NotAColumnLine(line) \/ word_end(line, 1) = 1
              THEN <<>>
              ELSE <<SubSeq(line, 1, word_end(line, 1) - 1)>>)
             \o ColumnsOfBodyLines(lines, k + 1)

\* the body of a table statement: the text between its first "(" and its
\* last ")"
StatementBody(text) ==
    LET open == CHOOSE j \in 1..Len(text) :
                    text[j] = "(" /\ \A k \in 1..(j - 1) : text[k] # "("
        close == CHOOSE j \in 1..Len(text) :
                    text[j] = ")" /\ \A k \in (j + 1)..Len(text) : text[k] # ")"
    IN  SubSeq(text, open + 1, close - 1)

\* the column list each table statement has by the rule for body lines
ColumnsByLineRule ==
    [st \in TableStatements |->
        ColumnsOfBodyLines(str_split_lines(StatementBody(StatementText[st])), 1)]

\* C17: the column list of an extracted table holds the leading identifier
\* of every line of the body that is not blank, not a line comment and does
\* not begin with a constraint keyword in any letter-case, and nothing else:
\* constraint lines add no entry.
C17_ConstraintLinesAddNoColumn ==
    Extracted =>
        \A k \in 1..Len(file_stmts) :
            (/\ file_stmts[k] \in TableStatements
             /\ LastDeclaration(file_stmts, k) = k
             /\ str_lower(DeclaredTable[file_stmts[k]].name) \in DOMAIN tables)
            => tables[str_lower(DeclaredTable[file_stmts[k]].name)]
                  = ColumnsByLineRule[file_stmts[k]]

\* the table the alias map gives a key
MappedTable(key) ==
    (CHOOSE item \in alias_mapping_items : item[1] = key)[2]

\* C18: a loop iteration on a reference that is not a pseudo-column and
\* whose lower-cased alias is a key of the alias map looks only the mapped
\* table up: when that table is not declared it adds one 'Table not found'
\* warning for the mapped name, also when a table named like the lower-cased
\* alias is declared. The lower-cased alias itself is looked up as a table
\* name only when it is not a key of the map: then a declared table of that
\* name is used and an undeclared one is reported by that name.
C18_AliasMapNoFallback ==
    [][(InLoop /\ ~PseudoColumn(references[ref_index][2])) =>
        LET alias == references[ref_index][1]
            alias_lower == str_lower(alias)
            not_found(table_name) ==
                /\ warnings' = warnings \o <<table_not_found_line(table_name, alias)>>
                /\ errors' = errors
            looked_up(table_name) ==
                /\ \A k \in 1..Len(warnings') :
                      warnings'[k].kind = "Table not found" => k <= Len(warnings)
                /\ Len(warnings') > Len(warnings) =>
                      warnings'[Len(warnings')].table_name = table_name
                /\ Len(errors') > Len(errors) =>
                      InList(errors'[Len(errors')].correct_column, tables[table_name])
        IN  IF alias_lower \in AliasKeys
            THEN IF MappedTable(alias_lower) \notin DOMAIN tables
                 THEN not_found(MappedTable(alias_lower))
                 ELSE looked_up(MappedTable(alias_lower))
            ELSE IF alias_lower \notin DOMAIN tables
                 THEN not_found(alias_lower)
                 ELSE looked_up(alias_lower)
       ]_vars

\* C18 witness: the run warned 'Table not found' for the mapped name of an
\* alias while a table named like the lower-cased alias is declared
C18_Witness ==
    /\ Extracted
    /\ \E k \in 1..Len(warnings) :
          /\ warnings[k].kind = "Table not found"
          /\ str_lower(warnings[k].alias) \in AliasKeys
          /\ warnings[k].table_name = MappedTable(str_lower(warnings[k].alias))
          /\ str_lower(warnings[k].alias) \in DOMAIN tables
          /\ warnings[k].table_name \notin DOMAIN tables

\* what the table extraction returns for each table statement when the
\* statement is the whole text
DeclarationAlone ==
    [st \in TableStatements |-> extract_table_columns(StatementText[st])]

\* the positions of a file whose statement is a table declaration the
\* extraction recognises
Declarations(stmts) ==
    {k \in 1..Len(stmts) :
        stmts[k] \in TableStatements /\ DOMAIN DeclarationAlone[stmts[k]] # {}}

\* the lower-cased name of the table a recognised declaration declares
DeclaredKey(st) ==
    CHOOSE name \in DOMAIN DeclarationAlone[st] : TRUE

\* C19: for every table a file declares, also twice or more under names
\* that are equal ignoring case, the schema has one entry under the
\* lower-cased name, and its column list is the one of the last of these
\* declarations in document order, with nothing of the earlier ones; the
\* number of tables found is the number of distinct lower-cased names.
C19_LastDeclarationWins ==
    Extracted =>
        LET decl == Declarations(file_stmts)
        IN  /\ \A k \in decl :
                  LET name == DeclaredKey(file_stmts[k])
                      last == CHOOSE j \in decl :
                                /\ DeclaredKey(file_stmts[j]) = name
                                /\ \A m \in decl :
                                      DeclaredKey(file_stmts[m]) = name => m <= j
                  IN  /\ name \in DOMAIN tables
                      /\ tables[name] = DeclarationAlone[file_stmts[last]][name]
            /\ tables_found =
                  Cardinality({DeclaredKey(file_stmts[k]) : k \in decl})

\* C19 witness: the file declares Audience_Demographics with several columns
\* and later audience_demographics with other columns, and a third table;
\* the schema holds two tables and, for the table declared twice, the
\* columns of the later declaration
C19_Witness ==
    /\ Extracted
    /\ \E j, k \in 1..Len(file_stmts) :
          /\ j < k
          /\ file_stmts[j] = "table_multi_line"
          /\ file_stmts[k] = "table_one_line"
          /\ DeclaredKey("table_multi_line") = DeclaredKey("table_one_line")
          /\ DeclarationAlone["table_multi_line"] # DeclarationAlone["table_one_line"]
          /\ tables[DeclaredKey("table_one_line")]
                = DeclarationAlone["table_one_line"][DeclaredKey("table_one_line")]
    /\ tables_found = 2

\* ------------------------------------------------------------------------
\* generate_audience_data.py: generate_campaigns_and_link_creatives
\* ------------------------------------------------------------------------

\* the largest number of creatives handed to the function
MaxCreatives == 4

\* the largest NUM_CAMPAIGNS
MaxCampaigns == 4

\* 'campaign_id': None of a creative that is not linked yet
None == <<>>

\* f'CAM_{i:06d}'
campaign_id(i) == <<"CAM_", i>>

\* max(a, b)
max(a, b) == IF a >= b THEN a ELSE b

\* creatives_per_campaign = len(creatives) // len(campaigns)
creatives_per_campaign ==
    Len(creatives) \div Len(campaigns)

\* extra_creatives = len(creatives) % len(campaigns)
extra_creatives ==
    Len(creatives) % Len(campaigns)

\* num_creatives_for_campaign of the campaign at index i, from 0
num_creatives_for_campaign(i) ==
    max(1, creatives_per_campaign + (IF i < extra_creatives THEN 1 ELSE 0))

\* the function is called with a positive number of creatives, none linked,
\* and a positive NUM_CAMPAIGNS; the checker does not run
InitGen ==
    /\ file_exists = FALSE
    /\ file_stmts = <<>>
    /\ CheckerStart
    /\ num_campaigns \in 1..MaxCampaigns
    /\ gen_pc = "create_campaigns"
    /\ campaigns = <<>>
    /\ \E n \in 1..MaxCreatives : creatives = [c \in 1..n |-> None]
    /\ creative_index = 0
    /\ campaign_i = 0
    /\ creative_j = 0

\* one pass of `for i in range(1, NUM_CAMPAIGNS + 1)`
CreateCampaign ==
    /\ gen_pc = "create_campaigns"
    /\ Len(campaigns) < num_campaigns
    /\ campaigns' = Append(campaigns, campaign_id(Len(campaigns) + 1))
    /\ UNCHANGED <<num_campaigns, gen_pc, creatives, creative_index,
                   campaign_i, creative_j>>
    /\ UNCHANGED <<checker_vars, rerun_vars>>

\* the campaigns are created: creative_index = 0 and the linking loop starts
StartLinking ==
    /\ gen_pc = "create_campaigns"
    /\ Len(campaigns) = num_campaigns
    /\ gen_pc' = "link"
    /\ creative_index' = 0
    /\ campaign_i' = 0
    /\ creative_j' = 0
    /\ UNCHANGED <<num_campaigns, campaigns, creatives>>
    /\ UNCHANGED <<checker_vars, rerun_vars>>

\* a pass of `for j in range(...)` with creative_index < len(creatives)
LinkNextCreative ==
    /\ gen_pc = "link"
    /\ campaign_i < Len(campaigns)
    /\ creative_j < num_creatives_for_campaign(campaign_i)
    /\ creative_index < Len(creatives)
    /\ creatives' = [creatives EXCEPT ![creative_index + 1] = campaigns[campaign_i + 1]]
    /\ creative_index' = creative_index + 1
    /\ creative_j' = creative_j + 1
    /\ UNCHANGED <<num_campaigns, gen_pc, campaigns, campaign_i>>
    /\ UNCHANGED <<checker_vars, rerun_vars>>

\* a pass of `for j in range(...)` after the creatives ran out:
\* random.choice(creatives) is linked to the campaign
LinkRandomCreative ==
    /\ gen_pc = "link"
    /\ campaign_i < Len(campaigns)
    /\ creative_j < num_creatives_for_campaign(campaign_i)
    /\ creative_index >= Len(creatives)
    /\ \E random_creative \in 1..Len(creatives) :
          creatives' = [creatives EXCEPT ![random_creative] = campaigns[campaign_i + 1]]
    /\ creative_j' = creative_j + 1
    /\ UNCHANGED <<num_campaigns, gen_pc, campaigns, creative_index, campaign_i>>
    /\ UNCHANGED <<checker_vars, rerun_vars>>

\* `for j` is exhausted: the next campaign of `for i, campaign`
NextCampaign ==
    /\ gen_pc = "link"
    /\ campaign_i < Len(campaigns)
    /\ creative_j >= num_creatives_for_campaign(campaign_i)
    /\ campaign_i' = campaign_i + 1
    /\ creative_j' = 0
    /\ UNCHANGED <<num_campaigns, gen_pc, campaigns, creatives, creative_index>>
    /\ UNCHANGED <<checker_vars, rerun_vars>>

\* return campaigns
ReturnCampaigns ==
    /\ gen_pc = "link"
    /\ campaign_i >= Len(campaigns)
    /\ gen_pc' = "done"
    /\ UNCHANGED <<num_campaigns, campaigns, creatives, creative_index,
                   campaign_i, creative_j>>
    /\ UNCHANGED <<checker_vars, rerun_vars>>

NextGen ==
    \/ CreateCampaign
    \/ StartLinking
    \/ LinkNextCreative
    \/ LinkRandomCreative
    \/ NextCampaign
    \/ ReturnCampaigns

SpecGen == InitGen /\ [][NextGen]_vars

\* C20: when generate_campaigns_and_link_creatives has returned, every
\* creative carries the campaign_id of one of the generated campaigns and
\* every generated campaign has at least one creative that carries its
\* campaign_id, for every positive number of creatives and of campaigns.
C20_EveryCampaignLinked ==
    gen_pc = "done" =>
        /\ \A c \in 1..Len(creatives) :
              \E k \in 1..Len(campaigns) : creatives[c] = campaigns[k]
        /\ \A k \in 1..Len(campaigns) :
              \E c \in 1..Len(creatives) : creatives[c] = campaigns[k]

====
